---------------------------- MODULE Spec2Model ----------------------------
(***************************************************************************)
(* A model of the Helldivers 2 stat-extraction bot: the OCR text cleaning  *)
(* (ocr_processing.py), the identity resolver (database.py) and the        *)
(* /extract confirmation and correction session (bot.py).                  *)
(*                                                                         *)
(* Python strings are sequences of one-character strings, so that the      *)
(* regular expressions of the source can be computed character by          *)
(* character.  Python's None and the dynamically typed field values of a   *)
(* player dict are tagged records (see NoneVal, StrVal, IntVal).           *)
(***************************************************************************)
EXTENDS Integers, Sequences, FiniteSets, TLC

(***************************************************************************)
(* Characters                                                              *)
(***************************************************************************)
LowerSeq == <<"a","b","c","d","e","f","g","h","i","j","k","l","m",
              "n","o","p","q","r","s","t","u","v","w","x","y","z">>

UpperSeq == <<"A","B","C","D","E","F","G","H","I","J","K","L","M",
              "N","O","P","Q","R","S","T","U","V","W","X","Y","Z">>

DigitSeq == <<"0","1","2","3","4","5","6","7","8","9">>

LowerLetters == {LowerSeq[i] : i \in 1..Len(LowerSeq)}

UpperLetters == {UpperSeq[i] : i \in 1..Len(UpperSeq)}

Digits == {DigitSeq[i] : i \in 1..Len(DigitSeq)}

IsSpace(c) == c = " "

IsAlnum(c) == c \in LowerLetters \cup UpperLetters \cup Digits

\* str.lower() on one character
LowerChar(c) ==
    IF c \in UpperLetters
    THEN LowerSeq[CHOOSE i \in 1..Len(UpperSeq) : UpperSeq[i] = c]
    ELSE c

\* str.upper() on one character
UpperChar(c) ==
    IF c \in LowerLetters
    THEN UpperSeq[CHOOSE i \in 1..Len(LowerSeq) : LowerSeq[i] = c]
    ELSE c

Max(a, b) == IF a >= b THEN a ELSE b

Min(a, b) == IF a <= b THEN a ELSE b

Abs(a) == IF a >= 0 THEN a ELSE -a

(***************************************************************************)
(* Python string methods                                                   *)
(***************************************************************************)
lower(s) == [i \in 1..Len(s) |-> LowerChar(s[i])]

upper(s) == [i \in 1..Len(s) |-> UpperChar(s[i])]

RECURSIVE lstrip(_)
lstrip(s) == IF s # <<>> /\ IsSpace(Head(s)) THEN lstrip(Tail(s)) ELSE s

RECURSIVE rstrip(_)
rstrip(s) ==
    IF s # <<>> /\ IsSpace(s[Len(s)]) THEN rstrip(SubSeq(s, 1, Len(s) - 1)) ELSE s

\* str.strip()
strip(s) == rstrip(lstrip(s))

\* s.startswith(p)
StartsWith(s, p) == Len(s) >= Len(p) /\ SubSeq(s, 1, Len(p)) = p

\* s[n:]
Drop(s, n) == SubSeq(s, n + 1, Len(s))

(***************************************************************************)
(* database.normalize_name                                                 *)
(***************************************************************************)
\* re.sub(r"<.*?>", "", name): from each '<' that has a later '>', the text up
\* to the nearest '>' is removed; scanning resumes after it.
RECURSIVE RemoveAngle(_)
RemoveAngle(s) ==
    IF s = <<>> THEN <<>>
    ELSE IF Head(s) = "<" /\ \E j \in 2..Len(s) : s[j] = ">"
         THEN LET j == CHOOSE k \in 2..Len(s) :
                          s[k] = ">" /\ \A m \in 2..(k - 1) : s[m] # ">"
              IN  RemoveAngle(Drop(s, j))
         ELSE <<Head(s)>> \o RemoveAngle(Tail(s))

IsDigitOrUnderscore(c) == c \in Digits \/ c = "_"

RECURSIVE StripLeadDU(_)
StripLeadDU(s) ==
    IF s # <<>> /\ IsDigitOrUnderscore(Head(s)) THEN StripLeadDU(Tail(s)) ELSE s

RECURSIVE StripTrailDU(_)
StripTrailDU(s) ==
    IF s # <<>> /\ IsDigitOrUnderscore(s[Len(s)])
    THEN StripTrailDU(SubSeq(s, 1, Len(s) - 1))
    ELSE s

\* re.sub(r'^[\d_]+|[\d_]+$', '', name)
StripEdgeDU(s) == StripTrailDU(StripLeadDU(s))

\* re.sub(r'[^a-z0-9]', '', name)
KeepLowerAlnum(s) == SelectSeq(s, LAMBDA c : c \in LowerLetters \cup Digits)

normalize_name(name) == KeepLowerAlnum(StripEdgeDU(RemoveAngle(lower(name))))

(***************************************************************************)
(* bot.clean_for_match                                                     *)
(***************************************************************************)
\* re.sub(r'^(mr|ms|mrs|dr)', '', name): the alternatives are tried in order,
\* so "mrs..." loses only "mr".
StripTitle(s) ==
    IF StartsWith(s, <<"m","r">>) THEN Drop(s, 2)
    ELSE IF StartsWith(s, <<"m","s">>) THEN Drop(s, 2)
    ELSE IF StartsWith(s, <<"m","r","s">>) THEN Drop(s, 3)
    ELSE IF StartsWith(s, <<"d","r">>) THEN Drop(s, 2)
    ELSE s


(***************************************************************************)
(* Python values: None, str, int                                           *)
(***************************************************************************)
NoneVal == [t |-> "none", i |-> 0, s |-> <<>>]

StrVal(str) == [t |-> "str", i |-> 0, s |-> str]

IntVal(n) == [t |-> "int", i |-> n, s |-> <<>>]

\* A truth test that nothing passes
TruthyNever(v) == FALSE

\* bool(v)
Truthy(v) ==
    CASE v.t = "none" -> FALSE
      [] v.t = "str"  -> v.s # <<>>
      [] v.t = "int"  -> v.i # 0

\* re.sub(r'[^a-z0-9]', '', name.lower()), then the title prefix; "" for a
\* falsy name (None or "")
clean_for_match(name) ==
    IF ~Truthy(name) THEN <<>> ELSE StripTitle(KeepLowerAlnum(lower(name.s)))

(***************************************************************************)
(* ocr_processing.clean_ocr_result                                         *)
(***************************************************************************)
\* The misreads table (the two non-ASCII keys are outside the alphabet of the
\* model).  No replacement produces a key, so the sequential str.replace
\* calls amount to one pass over the characters.
Misread(c) ==
    CASE c = "2" -> "Z" [] c = "3" -> "E" [] c = "4" -> "A" [] c = "5" -> "S"
      [] c = "6" -> "G" [] c = "7" -> "T" [] c = "8" -> "B" [] c = "9" -> "G"
      [] c = "|" -> "I" [] c = "@" -> "A" [] c = "$" -> "S" [] c = "&" -> "E"
      [] c = "!" -> "I"
      [] OTHER -> c

RepairMisreads(s) == [i \in 1..Len(s) |-> Misread(s[i])]

\* text.replace('_', ' ')
UnderscoreToSpace(s) == [i \in 1..Len(s) |-> IF s[i] = "_" THEN " " ELSE s[i]]

\* re.sub(r'([A-Za-z0-9])([A-Z])$', r'\1', text)
StripTrailingUpper(s) ==
    IF Len(s) >= 2 /\ s[Len(s)] \in UpperLetters /\ IsAlnum(s[Len(s) - 1])
    THEN SubSeq(s, 1, Len(s) - 1)
    ELSE s

\* re.sub(r'\s+', ' ', text)
RECURSIVE CollapseSpaces(_)
CollapseSpaces(s) ==
    IF s = <<>> THEN <<>>
    ELSE IF IsSpace(Head(s))
         THEN <<" ">> \o CollapseSpaces(lstrip(s))
         ELSE <<Head(s)>> \o CollapseSpaces(Tail(s))

\* re.sub(r'[^A-Za-z0-9\s]', ' ', text): a replacement by a space, not a removal
BlankNonAlnum(s) ==
    [i \in 1..Len(s) |-> IF IsAlnum(s[i]) \/ IsSpace(s[i]) THEN s[i] ELSE " "]

CleanName(s) ==
    BlankNonAlnum(strip(CollapseSpaces(
        StripTrailingUpper(UnderscoreToSpace(RepairMisreads(s))))))

\* re.sub(r'[^\d\.%]', '', text)
CleanAccuracy(s) == SelectSeq(s, LAMBDA c : c \in Digits \cup {".", "%"})

\* re.sub(r'[^\d]', '', text)
CleanDigits(s) == SelectSeq(s, LAMBDA c : c \in Digits)

clean_ocr_result(text, label) ==
    LET \* return text if text else None
        Result(cleaned) == IF cleaned = <<>> THEN NoneVal ELSE StrVal(cleaned)
    IN  IF ~Truthy(text) THEN NoneVal
        ELSE Result(IF label = "Name" THEN CleanName(text.s)
                    ELSE IF label = "Accuracy" THEN CleanAccuracy(text.s)
                    ELSE CleanDigits(text.s))

(***************************************************************************)
(* rapidfuzz.fuzz, as find_best_match uses it.  A score is the float score *)
(* in thousandths of a point, rounded down: scores of names this short     *)
(* differ by far more than a thousandth unless they are equal.             *)
(***************************************************************************)
RECURSIVE LcsRow(_, _, _, _)
\* Row i of the longest-common-subsequence table, built left to right:
\* prev[k + 1] and cur[k + 1] hold the cells (i - 1, k) and (i, k).
LcsRow(a, b, i, rows) ==
    LET prev == rows[1]
        cur  == rows[2]
        j    == Len(cur)
    IN  IF j > Len(b) THEN cur
        ELSE LcsRow(a, b, i,
                    <<prev, Append(cur, IF a[i] = b[j] THEN prev[j] + 1
                                        ELSE Max(prev[j + 1], cur[j]))>>)

RECURSIVE LcsFrom(_, _, _, _)
LcsFrom(a, b, i, prev) ==
    IF i > Len(a) THEN prev[Len(b) + 1]
    ELSE LcsFrom(a, b, i + 1, LcsRow(a, b, i, <<prev, <<0>>>>))

\* Length of a longest common subsequence
Lcs(a, b) == LcsFrom(a, b, 1, [k \in 1..(Len(b) + 1) |-> 0])

\* fuzz.ratio: 100 * (1 - indel / (len1 + len2)), 100 for two empty strings
ratio(a, b) ==
    IF Len(a) + Len(b) = 0 THEN 100000
    ELSE (200000 * Lcs(a, b)) \div (Len(a) + Len(b))

Chars(s) == {s[i] : i \in 1..Len(s)}

SetMax(S) == IF S = {} THEN 0 ELSE CHOOSE x \in S : \A y \in S : y <= x

\* The windows of the longer string s2 that the shorter string s1 is aligned
\* with: its prefixes shorter than s1, its substrings as long as s1 and its
\* suffixes shorter than s1, without those that end (begin, for a suffix) with
\* a character s1 does not have.
PartialWindows(s1, s2) ==
    LET len1 == Len(s1)
        len2 == Len(s2)
    IN  {SubSeq(s2, 1, i) : i \in {k \in 1..(len1 - 1) : s2[k] \in Chars(s1)}}
        \cup {SubSeq(s2, i + 1, i + len1) :
                 i \in {k \in 0..(len2 - len1 - 1) : s2[k + len1] \in Chars(s1)}}
        \cup {SubSeq(s2, i + 1, len2) :
                 i \in {k \in (len2 - len1)..(len2 - 1) : s2[k + 1] \in Chars(s1)}}

PartialImpl(s1, s2) == SetMax({ratio(s1, w) : w \in PartialWindows(s1, s2)})

\* fuzz.partial_ratio: 100 for two empty strings, 0 when only one is empty
partial_ratio(a, b) ==
    LET Aligned(shorter, longer, res) ==
            IF res # 100000 /\ Len(shorter) = Len(longer)
            THEN Max(res, PartialImpl(longer, shorter))
            ELSE res
        Ordered(shorter, longer) ==
            Aligned(shorter, longer, PartialImpl(shorter, longer))
    IN  IF Len(a) = 0 \/ Len(b) = 0
        THEN (IF Len(a) = Len(b) THEN 100000 ELSE 0)
        ELSE IF Len(a) <= Len(b) THEN Ordered(a, b) ELSE Ordered(b, a)

\* fuzz.token_sort_ratio.  Both arguments are outputs of normalize_name, which
\* hold no whitespace: each is a single token and sorting the tokens changes
\* nothing.
token_sort_ratio(a, b) == ratio(a, b)

(***************************************************************************)
(* database.find_best_match                                                *)
(***************************************************************************)
\* (None, None)
NoMatch == [matched |-> FALSE, name |-> <<>>, score |-> 0]

\* (name, score)
Match(name, score) == [matched |-> TRUE, name |-> name, score |-> score]

RECURSIVE NormKeysFrom(_, _)
NormKeysFrom(names, acc) ==
    LET WithKey(k) == IF \E i \in 1..Len(acc) : acc[i] = k
                      THEN acc ELSE Append(acc, k)
    IN  IF names = <<>> THEN acc
        ELSE NormKeysFrom(Tail(names), WithKey(normalize_name(Head(names))))

\* norm_name_map.keys(): a dict keeps its keys in the order of first insertion
NormNameKeys(registered_names) == NormKeysFrom(registered_names, <<>>)

\* norm_name_map[k]: a later name with the same normalized form replaces an
\* earlier one
NormNameMap(registered_names, k) ==
    registered_names[CHOOSE i \in 1..Len(registered_names) :
        /\ normalize_name(registered_names[i]) = k
        /\ \A j \in (i + 1)..Len(registered_names) :
               normalize_name(registered_names[j]) # k]

\* A length filter that lets every registry name through
LengthAny(n, ocr_name_norm) == TRUE

\* abs_len_diff <= 3 and 0.75 <= length_ratio <= 1.25, the ratio being 1.0 for
\* an empty candidate
LengthOk(n, ocr_name_norm) ==
    /\ Abs(Len(n) - Len(ocr_name_norm)) <= 3
    /\ \/ Len(ocr_name_norm) = 0
       \/ /\ 3 * Len(ocr_name_norm) <= 4 * Len(n)
          /\ 4 * Len(n) <= 5 * Len(ocr_name_norm)

NormDbNames(registered_names, ocr_name_norm) ==
    LET Ok(n) == LengthOk(n, ocr_name_norm)
    IN  SelectSeq(NormNameKeys(registered_names), Ok)

\* max(pr_score, ts_score)
MaxScore(ocr_name_norm, n) ==
    Max(partial_ratio(ocr_name_norm, n), token_sort_ratio(ocr_name_norm, n))

RECURSIVE InsertByScore(_, _)
\* m goes before the first entry of the sorted list with a smaller score
InsertByScore(sorted, m) ==
    IF sorted = <<>> THEN <<m>>
    ELSE IF Head(sorted).score < m.score THEN <<m>> \o sorted
         ELSE <<Head(sorted)>> \o InsertByScore(Tail(sorted), m)

RECURSIVE SortByScoreFrom(_, _)
SortByScoreFrom(matches, sorted) ==
    IF matches = <<>> THEN sorted
    ELSE SortByScoreFrom(Tail(matches), InsertByScore(sorted, Head(matches)))

\* matches.sort(key=lambda x: -x[1]): a stable sort, highest score first
SortByScore(matches) == SortByScoreFrom(matches, <<>>)

\* A short-name guard that stops no candidate
TooShortNever(ocr_name_norm, min_len) == FALSE

\* The short-name guard: len(ocr_name_norm) < min_len
TooShort(ocr_name_norm, min_len) == Len(ocr_name_norm) < min_len

\* The fuzzy pass, after the exact pass and the short-name guard
FuzzyMatch(ocr_name_norm, norm_db_names, registered_names, threshold) ==
    LET Scored(n) == [n |-> n, score |-> MaxScore(ocr_name_norm, n)]
        AtThreshold(m) == m.score >= threshold * 1000
        Named(m) == Match(NormNameMap(registered_names, m.n), m.score)
        Sorted(kept) == SortByScore([i \in 1..Len(kept) |-> Named(kept[i])])
        Best(matches) == IF matches # <<>> THEN matches[1] ELSE NoMatch
    IN  Best(Sorted(SelectSeq([i \in 1..Len(norm_db_names) |->
                                  Scored(norm_db_names[i])],
                              AtThreshold)))

\* An exact pass that never finds the candidate
ExactPassNever(ocr_name_norm, norm_db_names) == FALSE

\* The exact pass: some n of norm_db_names has n == ocr_name_norm
ExactPass(ocr_name_norm, norm_db_names) ==
    \E i \in 1..Len(norm_db_names) : norm_db_names[i] = ocr_name_norm

find_best_match(ocr_name, registered_names, threshold, min_len) ==
    LET Passes(ocr_name_norm, norm_db_names) ==
            IF ExactPass(ocr_name_norm, norm_db_names)
            THEN Match(NormNameMap(registered_names, ocr_name_norm), 100000)
            ELSE IF TooShort(ocr_name_norm, min_len) THEN NoMatch
            ELSE FuzzyMatch(ocr_name_norm, norm_db_names, registered_names,
                            threshold)
        Filtered(ocr_name_norm) ==
            Passes(ocr_name_norm, NormDbNames(registered_names, ocr_name_norm))
    IN  IF ocr_name = <<>> \/ registered_names = <<>> THEN NoMatch
        ELSE Filtered(normalize_name(strip(ocr_name)))

(***************************************************************************)
(* Numbers: int(), float() and the '.1f' format                            *)
(***************************************************************************)
DigitValue(c) == (CHOOSE i \in 1..Len(DigitSeq) : DigitSeq[i] = c) - 1

RECURSIVE DigitsToNat(_)
DigitsToNat(s) ==
    IF s = <<>> THEN 0
    ELSE 10 * DigitsToNat(SubSeq(s, 1, Len(s) - 1)) + DigitValue(s[Len(s)])

AllDigits(s) == \A i \in 1..Len(s) : s[i] \in Digits

\* The sign a numeric literal may start with
HasSign(s) == s # <<>> /\ Head(s) \in {"+", "-"}

Unsigned(s) == IF HasSign(s) THEN Tail(s) ELSE s

\* int(s) succeeds: an optional sign and at least one digit (the replies of the
\* model hold no underscores and no surrounding whitespace)
IntOk(s) == Unsigned(s) # <<>> /\ AllDigits(Unsigned(s))

IntOf(s) ==
    IF HasSign(s) /\ Head(s) = "-" THEN 0 - DigitsToNat(Unsigned(s))
    ELSE DigitsToNat(Unsigned(s))

RECURSIVE NatToStr(_)
\* str(n) for n >= 0
NatToStr(n) ==
    IF n < 10 THEN <<DigitSeq[n + 1]>>
    ELSE NatToStr(n \div 10) \o <<DigitSeq[(n % 10) + 1]>>

\* str(n)
IntToStr(n) == IF n < 0 THEN <<"-">> \o NatToStr(0 - n) ELSE NatToStr(n)

RECURSIVE Pow10(_)
Pow10(k) == IF k = 0 THEN 1 ELSE 10 * Pow10(k - 1)

\* A float: a finite value (-1)^neg * num / den, a NaN or an infinity
Finite(neg, num, den) == [kind |-> "fin", neg |-> neg, num |-> num, den |-> den]

NaN == [kind |-> "nan", neg |-> FALSE, num |-> 0, den |-> 1]

Infinity(neg) == [kind |-> "inf", neg |-> neg, num |-> 0, den |-> 1]

DotCount(s) == Cardinality({i \in 1..Len(s) : s[i] = "."})

\* A decimal literal without exponent: digits with at most one point
DecimalOk(s) ==
    /\ \A i \in 1..Len(s) : s[i] \in Digits \cup {"."}
    /\ DotCount(s) <= 1
    /\ \E i \in 1..Len(s) : s[i] \in Digits

NonFiniteWords == {<<"n","a","n">>, <<"i","n","f">>,
                   <<"i","n","f","i","n","i","t","y">>}

\* float(s) succeeds.  The literals of the model are decimal literals and the
\* words nan, inf and infinity, each with an optional sign; exponents and
\* underscores do not occur in them.
FloatOk(s) == DecimalOk(Unsigned(s)) \/ lower(Unsigned(s)) \in NonFiniteWords

FloatOf(s) ==
    LET neg == HasSign(s) /\ Head(s) = "-"
        Parts(int, frac) == Finite(neg, DigitsToNat(int \o frac), Pow10(Len(frac)))
        Split(u, dot) == Parts(SubSeq(u, 1, dot - 1), Drop(u, dot))
        Value(u) ==
            IF lower(u) = <<"n","a","n">> THEN NaN
            ELSE IF lower(u) \in NonFiniteWords THEN Infinity(neg)
            ELSE Split(u, IF DotCount(u) = 0 THEN Len(u) + 1
                          ELSE CHOOSE i \in 1..Len(u) : u[i] = ".")
    IN  Value(Unsigned(s))

\* The number of tenths nearest to num / den.  An exact tie goes to the even
\* neighbour, as the correctly rounded '.1f' does when the float holds the
\* value exactly.
RoundTenths(num, den) ==
    LET q == (10 * num) \div den
        r == (10 * num) % den
    IN  IF 2 * r > den \/ (2 * r = den /\ q % 2 = 1) THEN q + 1 ELSE q

\* A format that keeps no decimal place: f"{x:.0f}" for a finite x >= 0
FormatNoDecimal(x) ==
    CASE x.kind = "nan" -> <<"n","a","n">>
      [] x.kind = "inf" -> <<"i","n","f">>
      [] x.kind = "fin" -> NatToStr(x.num \div x.den)

\* f"{x:.1f}"
FormatOneDecimal(x) ==
    LET Tenths(t) == (IF x.neg THEN <<"-">> ELSE <<>>)
                     \o NatToStr(t \div 10) \o <<".">> \o NatToStr(t % 10)
    IN  CASE x.kind = "nan" -> <<"n","a","n">>
          [] x.kind = "inf" -> (IF x.neg THEN <<"-">> ELSE <<>>) \o <<"i","n","f">>
          [] x.kind = "fin" -> Tenths(RoundTenths(x.num, x.den))

(***************************************************************************)
(* bot.validate_stat                                                       *)
(***************************************************************************)
NAStr == <<"N","/","A">>

IntFields == {"Kills", "Shots Fired", "Shots Hit", "Deaths"}

\* validate_stat raises ValueError
ValidateRaises(field_name, raw_value) ==
    LET Raises(raw) ==
            /\ upper(raw) # NAStr
            /\ \/ field_name \in IntFields /\ ~IntOk(raw)
               \/ /\ field_name = "Accuracy"
                  /\ ~FloatOk(SelectSeq(raw, LAMBDA c : c # "%"))
    IN  Raises(strip(raw_value))

\* The value validate_stat returns when it does not raise
validate_stat(field_name, raw_value) ==
    LET Returns(raw) ==
            IF upper(raw) = NAStr THEN StrVal(NAStr)
            ELSE IF field_name \in IntFields THEN IntVal(IntOf(raw))
            ELSE IF field_name = "Accuracy"
                 THEN StrVal(FormatOneDecimal(
                          FloatOf(SelectSeq(raw, LAMBDA c : c # "%"))) \o <<"%">>)
            ELSE StrVal(raw)
    IN  Returns(strip(raw_value))

(***************************************************************************)
(* Player dicts                                                            *)
(***************************************************************************)
\* A key the dict does not hold
AbsentVal == [t |-> "absent", i |-> 0, s |-> <<>>]

PlayerKeys == {"player_name", "Kills", "Deaths", "Shots Fired", "Shots Hit",
               "Accuracy", "Melee Kills", "discord_id", "discord_server_id",
               "clan_name"}

EmptyDict == [k \in PlayerKeys |-> AbsentVal]

\* d.get(k, default)
Get(d, k, default) == IF d[k].t = "absent" THEN default ELSE d[k]

\* str(v)
PyStr(v) ==
    CASE v.t = "none" -> <<"N","o","n","e">>
      [] v.t = "str"  -> v.s
      [] v.t = "int"  -> IntToStr(v.i)

(***************************************************************************)
(* ocr_processing.process_for_ocr, one player column.  ocr maps each field *)
(* that has a region to what perform_ocr returned for it: None, or the     *)
(* non-empty stripped text.                                                *)
(***************************************************************************)
\* The fields of KNOWN_RESOLUTIONS[...]['regions']: no layout has a region for
\* Melee Kills
RegionFields == {"Name", "Kills", "Accuracy", "Shots Fired", "Shots Hit", "Deaths"}

OcrKeys == <<"Name", "Kills", "Shots Fired", "Shots Hit", "Deaths", "Accuracy",
             "Melee Kills">>

\* cleaned_result when the loop body reaches line 144, None when it left early
\* with player_stats[label] = "0"
CleanedField(ocr, key) ==
    IF key \notin RegionFields THEN NoneVal
    ELSE IF ~Truthy(ocr[key]) THEN NoneVal
    ELSE clean_ocr_result(ocr[key], key)

\* player_stats[label] after the loop body for key; absent when the body stores
\* nothing under the label
PlayerStatsEntry(ocr, key) ==
    LET Stored(cleaned_result) ==
            IF ~Truthy(cleaned_result) THEN StrVal(<<"0">>)
            ELSE IF key = "Name" THEN cleaned_result
            ELSE IF key \in {"Shots Fired", "Shots Hit", "Accuracy"} THEN AbsentVal
            ELSE IF key = "Melee Kills" THEN IntVal(IntOf(cleaned_result.s))
            ELSE cleaned_result
    IN  Stored(CleanedField(ocr, key))

\* The locals shots_fired and shots_hit as OCR read them, 0 by default
ShotsRead(ocr, key) ==
    LET Read(cleaned_result) ==
            IF Truthy(cleaned_result) THEN IntOf(cleaned_result.s) ELSE 0
    IN  Read(CleanedField(ocr, key))

NoFloat == [some |-> FALSE, x |-> Finite(FALSE, 0, 1)]

SomeFloat(x) == [some |-> TRUE, x |-> x]

\* The local ocr_accuracy
OcrAccuracy(ocr) ==
    LET Parsed(numeric_part) ==
            IF numeric_part = <<>> \/ ~FloatOk(numeric_part) THEN NoFloat
            ELSE SomeFloat(FloatOf(numeric_part))
        Read(cleaned_result) ==
            IF ~Truthy(cleaned_result) THEN NoFloat
            ELSE Parsed(SelectSeq(cleaned_result.s,
                                  LAMBDA c : c \in Digits \cup {"."}))
    IN  Read(CleanedField(ocr, "Accuracy"))

\* shots_hit after "Correct Shots Hit if bigger than Shots Fired"
ReconcileHit(shots_fired, shots_hit) ==
    IF shots_hit > shots_fired THEN shots_fired ELSE shots_hit

\* A range test that every accuracy passes
InPercentRangeAny(x) == TRUE

\* 0 <= ocr_accuracy <= 100.0
InPercentRange(x) == x.kind = "fin" /\ (~x.neg \/ x.num = 0) /\ x.num <= 100 * x.den

\* The local accuracy after "Recalc accuracy if needed"
ReconcileAccuracy(ocr_accuracy, shots_fired, shots_hit) ==
    IF ocr_accuracy.some /\ InPercentRange(ocr_accuracy.x) THEN ocr_accuracy.x
    ELSE IF shots_fired > 0
         THEN \* min((shots_hit / shots_fired) * 100, 100.0)
              IF shots_hit > shots_fired THEN Finite(FALSE, 100, 1)
              ELSE Finite(FALSE, shots_hit * 100, shots_fired)
         ELSE Finite(FALSE, 0, 1)

\* int(formatted_player.get(key, 0)), 0 when int() raises
IntOrZero(d, key) ==
    LET Parsed(str) == IF IntOk(str) THEN IntOf(str) ELSE 0
        AsInt(v) == CASE v.t = "int" -> v.i
                    [] v.t = "str" -> Parsed(strip(v.s))
                    [] OTHER -> 0
    IN  AsInt(Get(d, key, IntVal(0)))

\* The key of formatted_player a label of player_stats is stored under
FormattedKey(key) == IF key = "Name" THEN "player_name" ELSE key

\* formatted_player of one column
FormatPlayer(ocr) ==
    LET \* formatted_player, from what the loop stored in player_stats and the
        \* local accuracy
        Formatted(from_stats, accuracy) ==
            [from_stats EXCEPT
                !["Shots Fired"] = IntVal(IntOrZero(from_stats, "Shots Fired")),
                !["Shots Hit"]   = IntVal(IntOrZero(from_stats, "Shots Hit")),
                !["Melee Kills"] = IntVal(IntOrZero(from_stats, "Melee Kills")),
                !["Accuracy"]    = StrVal(FormatOneDecimal(accuracy) \o <<"%">>)]
        Reconciled(shots_fired, shots_hit) ==
            Formatted([k \in PlayerKeys |->
                          IF \E i \in 1..Len(OcrKeys) : FormattedKey(OcrKeys[i]) = k
                          THEN PlayerStatsEntry(ocr,
                                  OcrKeys[CHOOSE i \in 1..Len(OcrKeys) :
                                              FormattedKey(OcrKeys[i]) = k])
                          ELSE AbsentVal],
                      ReconcileAccuracy(OcrAccuracy(ocr), shots_fired, shots_hit))
        Read(shots_fired, shots_hit) ==
            Reconciled(shots_fired, ReconcileHit(shots_fired, shots_hit))
    IN  Read(ShotsRead(ocr, "Shots Fired"), ShotsRead(ocr, "Shots Hit"))

JunkNames == {<<>>, <<"0">>, <<".">>, <<"a">>}

\* name_check not in ["", "0", ".", "a"]
NameIsReal(formatted_player) ==
    lower(strip(Get(formatted_player, "player_name", StrVal(<<>>)).s)) \notin JunkNames

RECURSIVE process_for_ocr(_)
\* process_for_ocr(image, regions): player_data, for the columns P1..Pn in
\* order.  NUM_PLAYERS is the highest player index of the regions, at least 2
\* and at most 4, and the regions hold every column up to it.
process_for_ocr(columns) ==
    LET Appended(formatted_player) ==
            IF NameIsReal(formatted_player) THEN <<formatted_player>> ELSE <<>>
    IN  IF columns = <<>> THEN <<>>
        ELSE Appended(FormatPlayer(Head(columns))) \o process_for_ocr(Tail(columns))

(***************************************************************************)
(* boundary_drawing.define_regions.  A box is (left, top, right, bottom);  *)
(* the label "P<n> <field>" of a box is the pair (n, field).               *)
(***************************************************************************)
TOLERANCE == 5

\* config.PLAYER_OFFSET, the default of the environment variable
PLAYER_OFFSET == 460

KNOWN_RESOLUTIONS ==
    [res \in {<<1280, 800>>, <<1920, 1080>>} |->
        IF res = <<1280, 800>>
        THEN [regions |-> [key \in RegionFields |->
                 CASE key = "Name"        -> <<87, 133, 262, 152>>
                   [] key = "Kills"       -> <<229, 225, 293, 247>>
                   [] key = "Accuracy"    -> <<229, 259, 293, 278>>
                   [] key = "Shots Fired" -> <<229, 291, 293, 311>>
                   [] key = "Shots Hit"   -> <<229, 322, 293, 346>>
                   [] key = "Deaths"      -> <<250, 352, 293, 376>>],
              offset |-> 305]
        ELSE [regions |-> [key \in RegionFields |->
                 CASE key = "Name"        -> <<130, 200, 360, 230>>
                   [] key = "Kills"       -> <<340, 338, 450, 375>>
                   [] key = "Accuracy"    -> <<340, 386, 450, 420>>
                   [] key = "Shots Fired" -> <<340, 435, 450, 470>>
                   [] key = "Shots Hit"   -> <<340, 483, 449, 518>>
                   [] key = "Deaths"      -> <<375, 528, 450, 566>>],
              offset |-> PLAYER_OFFSET]]

\* A tolerance test that no size passes
IsCloseNever(w, h, target_w, target_h) == FALSE

is_close_enough(w, h, target_w, target_h) ==
    Abs(w - target_w) <= TOLERANCE /\ Abs(h - target_h) <= TOLERANCE

\* A shift of the left edge alone
AdjustLeftOnly(region, offset, player_index, player_offset) ==
    <<Max(0, region[1] + offset[1] + player_index * player_offset),
      Max(0, region[2]), Max(0, region[3]), Max(0, region[4])>>

adjust_region(region, offset, player_index, player_offset) ==
    <<Max(0, region[1] + offset[1] + player_index * player_offset),
      Max(0, region[2]),
      Max(0, region[3] + offset[1] + player_index * player_offset),
      Max(0, region[4])>>

\* A define_regions that returns the 1920x1080 boxes of every player as they
\* are, whatever the size of the image
DefineUnscaled(image_shape, NUM_PLAYERS) ==
    [label \in (1..NUM_PLAYERS) \X RegionFields |->
        adjust_region(KNOWN_RESOLUTIONS[<<1920, 1080>>].regions[label[2]], <<0, 0>>,
                      label[1] - 1, KNOWN_RESOLUTIONS[<<1920, 1080>>].offset)]

\* define_regions(image_shape), with config.NUM_PLAYERS as a parameter.
\* image_shape is (height, width), or empty for None.  scale_x and scale_y are
\* the fractions w / base_width and h / base_height, and int(c * scale) is the
\* quotient of c * w by base_width: the coordinates are not negative.
define_regions(image_shape, NUM_PLAYERS) ==
    LET Scaled(region_no_scale, base, w, h) ==
            <<(region_no_scale[1] * w) \div base[1],
              (region_no_scale[2] * h) \div base[2],
              (region_no_scale[3] * w) \div base[1],
              (region_no_scale[4] * h) \div base[2]>>
        Regions(base, w, h) ==
            [label \in (1..NUM_PLAYERS) \X RegionFields |->
                Scaled(adjust_region(KNOWN_RESOLUTIONS[base].regions[label[2]],
                                     <<0, 0>>, label[1] - 1,
                                     KNOWN_RESOLUTIONS[base].offset),
                       base, w, h)]
        Chosen(w, h) ==
            IF is_close_enough(w, h, 1280, 800) THEN Regions(<<1280, 800>>, w, h)
            ELSE IF is_close_enough(w, h, 1920, 1080)
                 THEN Regions(<<1920, 1080>>, w, h)
                 ELSE Regions(<<1920, 1080>>, w, h)
    IN  IF image_shape = <<>> THEN Regions(<<1920, 1080>>, 1920, 1080)
        ELSE Chosen(image_shape[2], image_shape[1])

(***************************************************************************)
(* Identity resolution at the two call sites of bot.py                     *)
(***************************************************************************)
\* config.MATCH_SCORE_THRESHOLD, the default of the environment variable
MATCH_SCORE_THRESHOLD == 50

\* The default of find_best_match's min_len, which no caller overrides
DefaultMinLen == 3

\* Server_Listing: the guilds with a discord_server_name
ServerListing == [id \in {1} |-> <<"G","P","T">>]

\* database.get_clan_name_by_discord_server_id
get_clan_name_by_discord_server_id(discord_server_id) ==
    IF ~Truthy(discord_server_id) THEN StrVal(NAStr)
    ELSE IF discord_server_id.i \in DOMAIN ServerListing
         THEN StrVal(ServerListing[discord_server_id.i])
         ELSE StrVal(NAStr)

\* list.index
IndexOf(seq, x) == CHOOSE i \in 1..Len(seq) : seq[i] = x /\ \A j \in 1..(i - 1) : seq[j] # x

\* The branch that found a registered user
SetIdentity(player, matched_user) ==
    [player EXCEPT
        !["player_name"] = StrVal(matched_user.player_name),
        !["discord_id"] = matched_user.discord_id,
        !["discord_server_id"] = matched_user.discord_server_id,
        !["clan_name"] = IF Truthy(matched_user.discord_server_id)
                         THEN get_clan_name_by_discord_server_id(
                                  matched_user.discord_server_id)
                         ELSE StrVal(NAStr)]

\* The branch that found none
ClearIdentity(player) ==
    [player EXCEPT
        !["player_name"] = NoneVal,
        !["discord_id"] = NoneVal,
        !["discord_server_id"] = NoneVal,
        !["clan_name"] = StrVal(NAStr)]

\* [clean_for_match(n) for n in db_names]
DbNamesClean(registered_users) ==
    [i \in 1..Len(registered_users) |->
        clean_for_match(StrVal(registered_users[i].player_name))]

\* best_match_cleaned and match_score >= MATCH_SCORE_THRESHOLD, then the
\* registered user at the first index of the cleaned name
ApplyMatch(player, registered_users, res) ==
    IF res.matched /\ res.name # <<>> /\ res.score >= MATCH_SCORE_THRESHOLD * 1000
    THEN SetIdentity(player,
             registered_users[IndexOf(DbNamesClean(registered_users), res.name)])
    ELSE ClearIdentity(player)

\* One turn of "for player in players_data" in extract.  The name it hands to
\* clean_for_match is the player_name of the record, which process_for_ocr has
\* cleaned already, cleaned once more.
ExtractResolve(player, registered_users) ==
    LET Resolved(ocr_name) ==
            IF Truthy(ocr_name)
            THEN ApplyMatch(player, registered_users,
                     find_best_match(clean_for_match(clean_ocr_result(ocr_name, "Name")),
                                     DbNamesClean(registered_users),
                                     MATCH_SCORE_THRESHOLD, DefaultMinLen))
            ELSE ClearIdentity(player)
    IN  Resolved(Get(player, "player_name", NoneVal))

\* selected_field == 'player_name' in FieldSelect.callback
CorrectName(player, new_value_str, registered_users) ==
    LET Resolved(cleaned_ocr_name) ==
            IF ~Truthy(cleaned_ocr_name) THEN ClearIdentity(player)
            ELSE ApplyMatch(player, registered_users,
                     find_best_match(clean_for_match(cleaned_ocr_name),
                                     DbNamesClean(registered_users),
                                     MATCH_SCORE_THRESHOLD, DefaultMinLen))
    IN  Resolved(clean_ocr_result(StrVal(new_value_str), "Name"))

\* The filter of extract on junk or missing names
HasValidName(p) ==
    LET Valid(name) == Truthy(name) /\ strip(PyStr(name)) \notin JunkNames
    IN  Valid(Get(p, "player_name", NoneVal))

\* A filter that keeps the records that resolved to nobody
HasNameAny(p) == TRUE

\* p.get('player_name') is truthy
HasName(p) == Truthy(Get(p, "player_name", NoneVal))

\* What extract does with the columns OCR read: the records it resolved, and
\* the stage it ended in
\* An extract that presents whatever resolved, however few
ExtractStageNoMinimum(valid, kept) == [stage |-> "confirm", players_data |-> kept]

\* The two minimum checks of extract: on the records with a valid name, and on
\* those of them that resolved to a registered user
ExtractStage(valid, kept) ==
    IF Len(valid) < 2
    THEN [stage |-> "min_valid_names", players_data |-> <<>>]
    ELSE IF Len(kept) < 2
         THEN [stage |-> "min_registered", players_data |-> <<>>]
         ELSE [stage |-> "confirm", players_data |-> kept]

ExtractPlayers(columns, registered_users) ==
    LET Resolved(valid) ==
            ExtractStage(valid,
                  SelectSeq([i \in 1..Len(valid) |->
                                ExtractResolve(valid[i], registered_users)],
                            HasName))
    IN  Resolved(SelectSeq(process_for_ocr(columns), HasValidName))

(***************************************************************************)
(* bot.highlight_zero_values and database.insert_player_data               *)
(***************************************************************************)
ZeroStrings == {<<"0">>, <<"0",".","0">>, <<"N","o","n","e">>, NAStr}

\* The check without the two shot counts
HighlightKillsAccuracy(player) ==
    {field \in {"Kills", "Accuracy"} :
        PyStr(Get(player, field, StrVal(NAStr))) \in ZeroStrings}

highlight_zero_values(player) ==
    {field \in {"Kills", "Accuracy", "Shots Fired", "Shots Hit"} :
        PyStr(Get(player, field, StrVal(NAStr))) \in ZeroStrings}

\* The document insert_player_data stores for one player (without the
\* submitter and the time)
StatsDoc(player) ==
    [k \in PlayerKeys |->
        Get(player, k,
            IF k = "player_name" THEN StrVal(<<"U","n","k","n","o","w","n">>)
            ELSE IF k \in {"discord_id", "discord_server_id"} THEN NoneVal
            ELSE StrVal(NAStr))]

(***************************************************************************)
(* State                                                                   *)
(***************************************************************************)
VARIABLES
    registered_users,       \* the Alliance collection, as get_registered_users returns it
    view,                   \* the view the session message carries
    content,                \* what the session message says
    followup,               \* the last ephemeral follow-up of the session
    players_data,           \* shared_data.players_data
    selected_player_index,  \* shared_data.selected_player_index, -1 for None
    selected_field,         \* shared_data.selected_field, "" for None
    awaiting,               \* FieldSelect.callback waits in bot.wait_for
    yes_pending,            \* YES presses deferred and not yet served
    stats_collection,       \* the documents of User_Stats, in insertion order
    monitor_posts,          \* embeds sent to the monitor channel
    edits,                  \* corrections the user has started
    image,                  \* the columns OCR reads in the attached image
    m_name, m_registry, m_threshold, m_min_len, m_result,  \* one call of find_best_match
    r_raw, r_extract, r_correct,    \* one name text at the two call sites
    c_columns, c_player_data,       \* one call of process_for_ocr
    f_label, f_invoked, f_texts,    \* one field of it: perform_ocr,
    f_result, f_cleaned,            \*     then clean_ocr_result
    g_shape, g_num_players, g_regions   \* one call of define_regions

session_vars == <<view, content, followup, players_data, selected_player_index,
                  selected_field, awaiting, yes_pending, stats_collection,
                  monitor_posts, edits, image>>

match_vars == <<m_name, m_registry, m_threshold, m_min_len, m_result>>

resolve_vars == <<r_raw, r_extract, r_correct>>

column_vars == <<c_columns, c_player_data, f_label, f_invoked, f_texts, f_result,
                 f_cleaned>>

region_vars == <<g_shape, g_num_players, g_regions>>

vars == <<registered_users, session_vars, match_vars, resolve_vars, column_vars,
          region_vars>>

(***************************************************************************)
(* Bounds and inputs                                                       *)
(***************************************************************************)
\* Corrections one session goes through
MaxEdits == 2

\* Corrections of a session that ends in a save: both shot counts of two
\* records, and one name
MaxSaveEdits == 5

\* YES presses that may wait to be served at once
MaxYes == 2

\* Registered names in a registry
MaxRegistry == 2

Bob == <<"B","o","b">>

Boba == <<"B","o","b","a">>

Alan == <<"A","l","a","n">>

JohnSmith == <<"J","o","h","n","S","m","i","t","h">>

\* JohnSmith as OCR reads it with a zero for the o
J0hnSmith == <<"J","0","h","n","S","m","i","t","h">>

\* A registered name that carries a tag in angle brackets
TagBob == <<"<","A",">","B","o","b">>

\* Registered users named names[1], names[2], ...: the odd ones belong to
\* guild 1, the even ones to no guild
MakeUsers(names) ==
    [i \in 1..Len(names) |->
        [player_name |-> names[i],
         discord_id |-> IntVal(100 + i),
         discord_server_id |-> IF i % 2 = 1 THEN IntVal(1) ELSE NoneVal]]

\* Sequences over S of length at most n
RECURSIVE SeqsUpTo(_, _)
SeqsUpTo(S, n) ==
    IF n = 0 THEN {<<>>}
    ELSE LET shorter == SeqsUpTo(S, n - 1)
         IN  shorter \cup {Append(q, x) : q \in shorter, x \in S}

\* What perform_ocr returned for the fields of one column
Reading(name, kills, accuracy, fired, hit, deaths) ==
    [k \in RegionFields |->
        CASE k = "Name" -> name
          [] k = "Kills" -> kills
          [] k = "Accuracy" -> accuracy
          [] k = "Shots Fired" -> fired
          [] k = "Shots Hit" -> hit
          [] k = "Deaths" -> deaths]

T(str) == StrVal(str)

\* OCR read nothing in any numeric field
BlankStats(name) == Reading(name, NoneVal, NoneVal, NoneVal, NoneVal, NoneVal)

\* 7 kills, 10 shots fired, 15 hit, 1 death, no accuracy
OverHitStats(name) ==
    Reading(name, T(<<"7">>), NoneVal, T(<<"1","0">>), T(<<"1","5">>), T(<<"1">>))

\* 7 kills, accuracy 78.5%%, 10 shots fired, 5 hit, 1 death
FullStats(name) ==
    Reading(name, T(<<"7">>), T(<<"7","8",".","5","%","%">>), T(<<"1","0">>),
            T(<<"5">>), T(<<"1">>))

\* The names OCR reads in a session: a registered name, a misread of one, a
\* junk token, an unregistered name, nothing
SessionNames == {T(Bob), T(<<"A","l","a","m">>), T(<<"a">>), T(<<"Z","e","d">>), NoneVal}

\* The screens of the sessions: two, three or four columns
SessionScreens ==
    {<<FullStats(T(Bob)), OverHitStats(T(<<"A","l","a","m">>))>>,
     <<FullStats(T(Bob)), BlankStats(T(<<"a">>)), BlankStats(T(<<"A","l","a","m">>))>>,
     <<OverHitStats(T(Bob)), FullStats(T(<<"Z","e","d">>))>>,
     <<FullStats(T(Bob)), BlankStats(NoneVal), BlankStats(T(<<"a">>)), BlankStats(NoneVal)>>}

SessionRegistries == {MakeUsers(<<Bob, Alan>>)}

\* How /extract ends before it reads the image, or "ok"
PreChecks == {"dm", "not_configured", "missing_ids", "no_role", "bad_extension",
              "error", "ok"}

EditFields == {"player_name", "Kills", "Accuracy", "Shots Fired", "Shots Hit",
               "Deaths", "Melee Kills"}

\* What the user may answer when asked for the new value of a field
Replies(field) ==
    CASE field = "player_name" -> {<<"A","l","a","m">>, <<"Z","e","d">>}
      [] field = "Kills" -> {<<"7">>, <<"a","b","c">>}
      [] field = "Accuracy" -> {<<"7","5",".","3","%">>, <<"n","/","a">>, <<"n","a","n">>}
      [] field = "Shots Fired" -> {<<"1","0">>}
      [] field = "Shots Hit" -> {<<"1","5">>, <<"5">>}
      [] field = "Deaths" -> {<<"1">>}
      [] field = "Melee Kills" -> {<<"2">>}
      [] OTHER -> {}

(***************************************************************************)
(* The session: /extract, YES, EDIT and the correction flow                *)
(***************************************************************************)
\* No result yet
PendingMatch == [matched |-> FALSE, name |-> <<>>, score |-> -1]

PendingVal == [t |-> "pending", i |-> 0, s |-> <<>>]

\* No call of the pure functions yet
PureIdle ==
    /\ m_name = <<>> /\ m_registry = <<>> /\ m_threshold = 0 /\ m_min_len = 0
    /\ m_result = PendingMatch
    /\ r_raw = <<>> /\ r_extract = PendingVal /\ r_correct = PendingVal
    /\ c_columns = <<>> /\ c_player_data = <<>>
    /\ f_label = "" /\ f_invoked = <<>> /\ f_texts = <<>>
    /\ f_result = PendingVal /\ f_cleaned = PendingVal
    /\ g_shape = <<>> /\ g_num_players = 0 /\ g_regions = <<>>

SessionIdle ==
    /\ view = "NoMessage"
    /\ content = "none"
    /\ followup = "none"
    /\ players_data = <<>>
    /\ selected_player_index = -1
    /\ selected_field = ""
    /\ awaiting = FALSE
    /\ yes_pending = 0
    /\ stats_collection = <<>>
    /\ monitor_posts = 0
    /\ edits = 0
    /\ image = <<>>

Init ==
    /\ registered_users \in SessionRegistries
    /\ SessionIdle
    /\ PureIdle

\* /extract, from the command to the confirmation message or the failure
Extract(pre, columns) ==
    /\ view = "NoMessage"
    /\ followup = "none"
    /\ LET Ended(out) ==
               IF pre # "ok"
               THEN /\ followup' = pre
                    /\ UNCHANGED <<view, content, players_data>>
               ELSE IF out.stage # "confirm"
               THEN /\ followup' = out.stage
                    /\ UNCHANGED <<view, content, players_data>>
               ELSE /\ followup' = "submitted_image"
                    /\ players_data' = out.players_data
                    /\ view' = "ConfirmationView"
                    /\ content' = "extracted"
       IN  Ended(ExtractPlayers(columns, registered_users))
    /\ image' = columns
    /\ UNCHANGED <<registered_users, selected_player_index, selected_field, awaiting,
                   yes_pending, stats_collection, monitor_posts, edits,
                   match_vars, resolve_vars, column_vars, region_vars>>

\* The YES button, up to the deferral of the response
YesPress ==
    /\ view = "ConfirmationView"
    /\ yes_pending < MaxYes
    /\ yes_pending' = yes_pending + 1
    /\ UNCHANGED <<registered_users, image, view, content, followup, players_data,
                   selected_player_index, selected_field, awaiting, stats_collection,
                   monitor_posts, edits, match_vars, resolve_vars, column_vars, region_vars>>

\* insert_player_data(players_data, submitted_by)
InsertPlayerData(collection, data) ==
    collection \o [i \in 1..Len(data) |-> StatsDoc(data[i])]

\* ConfirmationView.confirm after the deferral
YesRun(channel_found) ==
    /\ yes_pending > 0
    /\ yes_pending' = yes_pending - 1
    /\ IF \E i \in 1..Len(players_data) : highlight_zero_values(players_data[i]) # {}
       THEN /\ followup' = "zero_warning"
            /\ UNCHANGED <<view, content, stats_collection, monitor_posts>>
       ELSE /\ stats_collection' = InsertPlayerData(stats_collection, players_data)
            /\ monitor_posts' = IF channel_found THEN monitor_posts + 1 ELSE monitor_posts
            /\ content' = "saved"
            /\ view' = "NoView"
            /\ UNCHANGED followup
    /\ UNCHANGED <<registered_users, image, players_data, selected_player_index,
                   selected_field, awaiting, edits, match_vars, resolve_vars,
                   column_vars, region_vars>>

\* The EDIT button: ConfirmationView.edit_player_selection, in a session
\* that goes through at most bound corrections
EditPressWithin(bound) ==
    /\ view = "ConfirmationView"
    /\ edits < bound
    /\ edits' = edits + 1
    /\ view' = "PlayerSelect"
    /\ content' = "choose_player"
    /\ UNCHANGED <<registered_users, image, followup, players_data, selected_player_index,
                   selected_field, awaiting, yes_pending, stats_collection,
                   monitor_posts, match_vars, resolve_vars, column_vars, region_vars>>

EditPress == EditPressWithin(MaxEdits)

\* PlayerSelect.callback
PlayerSelectCallback(index) ==
    /\ view = "PlayerSelect"
    /\ selected_player_index' = index
    /\ view' = "FieldSelect"
    /\ content' = "choose_field"
    /\ UNCHANGED <<registered_users, image, followup, players_data, selected_field, awaiting,
                   yes_pending, stats_collection, monitor_posts, edits,
                   match_vars, resolve_vars, column_vars, region_vars>>

\* FieldSelect.callback, up to bot.wait_for
FieldSelectCallback(field) ==
    /\ view = "FieldSelect"
    /\ selected_field' = field
    /\ view' = "NoView"
    /\ content' = "enter_value"
    /\ awaiting' = TRUE
    /\ UNCHANGED <<registered_users, image, followup, players_data, selected_player_index,
                   yes_pending, stats_collection, monitor_posts, edits,
                   match_vars, resolve_vars, column_vars, region_vars>>

\* A correction that also resets the Accuracy of the record
CorrectedAndReset(player, field, new_value_str) ==
    [player EXCEPT ![field] = validate_stat(field, new_value_str),
                   !["Accuracy"] = StrVal(<<"0",".","0","%">>)]

\* The record of the selected player after the correction
Corrected(player, field, new_value_str) ==
    IF field = "player_name"
    THEN CorrectName(player, new_value_str, registered_users)
    ELSE [player EXCEPT ![field] = validate_stat(field, new_value_str)]

\* FieldSelect.callback, from the reply to the end
Reply(text) ==
    /\ awaiting
    /\ awaiting' = FALSE
    /\ LET Answered(new_value_str) ==
               IF ValidateRaises(selected_field, new_value_str)
               THEN /\ followup' = "invalid_input"
                    /\ UNCHANGED <<players_data, view, content>>
               ELSE /\ players_data' =
                          [players_data EXCEPT ![selected_player_index + 1] =
                              Corrected(@, selected_field, new_value_str)]
                    /\ content' = "updated"
                    /\ view' = "ConfirmationView"
                    /\ UNCHANGED followup
       IN  Answered(strip(text))
    /\ UNCHANGED <<registered_users, image, selected_player_index, selected_field,
                   yes_pending, stats_collection, monitor_posts, edits,
                   match_vars, resolve_vars, column_vars, region_vars>>

\* A timeout that also blanks the selected field of the selected record
ReplyTimeoutBlanks ==
    /\ awaiting
    /\ awaiting' = FALSE
    /\ followup' = "timeout"
    /\ players_data' = [players_data EXCEPT
                            ![selected_player_index + 1][selected_field] = StrVal(NAStr)]
    /\ UNCHANGED <<registered_users, image, view, content, selected_player_index,
                   selected_field, yes_pending, stats_collection, monitor_posts,
                   edits, match_vars, resolve_vars, column_vars, region_vars>>

\* asyncio.TimeoutError after 60 seconds without a reply
ReplyTimeout ==
    /\ awaiting
    /\ awaiting' = FALSE
    /\ followup' = "timeout"
    /\ UNCHANGED <<registered_users, image, view, content, players_data,
                   selected_player_index, selected_field, yes_pending,
                   stats_collection, monitor_posts, edits, match_vars, resolve_vars,
                   column_vars, region_vars>>

Next ==
    \/ \E pre \in PreChecks, columns \in SessionScreens : Extract(pre, columns)
    \/ YesPress
    \/ \E channel_found \in BOOLEAN : YesRun(channel_found)
    \/ EditPress
    \/ \E index \in 0..(Len(players_data) - 1) : PlayerSelectCallback(index)
    \/ \E field \in EditFields : FieldSelectCallback(field)
    \/ \E text \in Replies(selected_field) : Reply(text)
    \/ ReplyTimeout

Spec == Init /\ [][Next]_vars

\* The session when every handler that was started runs on: the user makes
\* each selection that is offered, bot.wait_for ends with its timeout unless
\* a reply ends it before, and a deferred confirm is served
FairSpec ==
    /\ Spec
    /\ WF_vars(\E index \in 0..(Len(players_data) - 1) : PlayerSelectCallback(index))
    /\ WF_vars(\E field \in EditFields : FieldSelectCallback(field))
    /\ WF_vars(ReplyTimeout)
    /\ WF_vars(\E channel_found \in BOOLEAN : YesRun(channel_found))

(***************************************************************************)
(* The session up to a save: one screen of two players, corrections of the *)
(* name and of the shot counts, which extraction leaves at zero            *)
(***************************************************************************)
NextSave ==
    LET SaveScreen == <<FullStats(T(Bob)), OverHitStats(T(<<"A","l","a","m">>))>>
        SaveFields == {"player_name", "Shots Fired", "Shots Hit"}
        SaveReplies(field) ==
            CASE field = "player_name" -> {<<"Z","e","d">>}
              [] field = "Shots Fired" -> {<<"1","0">>}
              [] field = "Shots Hit" -> {<<"5">>}
              [] OTHER -> {}
    IN  \/ Extract("ok", SaveScreen)
        \/ YesPress
        \/ \E channel_found \in BOOLEAN : YesRun(channel_found)
        \/ EditPressWithin(MaxSaveEdits)
        \/ \E index \in 0..(Len(players_data) - 1) : PlayerSelectCallback(index)
        \/ \E field \in SaveFields : FieldSelectCallback(field)
        \/ \E text \in SaveReplies(selected_field) : Reply(text)
        \/ ReplyTimeout

SpecSave == Init /\ [][NextSave]_vars

(***************************************************************************)
(* /extract alone, over every screen of two or three columns               *)
(***************************************************************************)
\* The screens whose columns hold one of the session's names and no number
ExtractScreens ==
    {q \in SeqsUpTo({BlankStats(name) : name \in SessionNames}, 3) : Len(q) >= 2}

ExtractRegistries == {MakeUsers(<<Bob, Alan>>), MakeUsers(<<Alan>>)}

InitExtract ==
    /\ registered_users \in ExtractRegistries
    /\ SessionIdle
    /\ PureIdle

NextExtract == \E pre \in PreChecks, columns \in ExtractScreens : Extract(pre, columns)

SpecExtract == InitExtract /\ [][NextExtract]_vars

(***************************************************************************)
(* process_for_ocr on one screen of two columns                            *)
(***************************************************************************)
\* The first column is a player's; the second is a player's or a junk column
FirstColumns ==
    {Reading(T(Bob), kills, accuracy, fired, hit, T(<<"1">>)) :
        kills \in {NoneVal, T(<<"7">>)},
        accuracy \in {NoneVal, T(<<"7","8",".","5","%","%">>), T(<<"1","5","0">>),
                      T(<<"7",".","8",".","5">>)},
        fired \in {NoneVal, T(<<"1","0">>), T(<<"0">>), T(<<"3">>)},
        hit \in {NoneVal, T(<<"1","5">>), T(<<"5">>), T(<<"1">>), T(<<"0">>)}}

SecondColumns == {BlankStats(T(<<"a">>)), FullStats(T(Alan))}

\* One call of process_for_ocr
ProcessForOcr(columns) ==
    /\ c_columns = <<>>
    /\ c_columns' = columns
    /\ c_player_data' = process_for_ocr(columns)
    /\ UNCHANGED <<registered_users, session_vars, match_vars, resolve_vars,
                   region_vars, f_label, f_invoked, f_texts, f_result, f_cleaned>>

NextOcr == \E first \in FirstColumns, second \in SecondColumns :
               ProcessForOcr(<<first, second>>)

SpecOcr == Init /\ [][NextOcr]_vars

(***************************************************************************)
(* find_best_match on one candidate and one registry                       *)
(***************************************************************************)
MatchCandidates ==
    {<<>>, Bob, <<"b","o","b">>, <<"A","l">>, <<"a","b","c","d">>, <<"1","2">>,
     <<"B","o","b","b">>, <<"A","l","a","m">>, <<"z","z","z","z">>,
     CleanName(J0hnSmith)}

MatchNames ==
    {Bob, Boba, Alan, <<"A","b">>, <<"a","b","c","e","1","2">>, <<"a","b","c","f">>,
     <<"3","4">>, <<"<","A","B",">","B","o","b","_","1","2">>}

\* One call of find_best_match
FindBestMatch(ocr_name, registered_names, threshold, min_len) ==
    /\ m_result = PendingMatch
    /\ m_name' = ocr_name
    /\ m_registry' = registered_names
    /\ m_threshold' = threshold
    /\ m_min_len' = min_len
    /\ m_result' = find_best_match(ocr_name, registered_names, threshold, min_len)
    /\ UNCHANGED <<registered_users, session_vars, resolve_vars, column_vars, region_vars>>

NextMatch ==
    \E ocr_name \in MatchCandidates,
       registered_names \in SeqsUpTo(MatchNames, MaxRegistry)
                                \cup {<<JohnSmith>>, <<Bob, JohnSmith>>},
       threshold \in {50, 80}, min_len \in {3, 4} :
        FindBestMatch(ocr_name, registered_names, threshold, min_len)

SpecMatch == Init /\ [][NextMatch]_vars

(***************************************************************************)
(* One name text at the two call sites of the resolver                     *)
(***************************************************************************)
\* What perform_ocr reads, or the user types, as a name
RawNames ==
    {Bob, <<"B","O","B","A","B">>, <<"A","l","a","m">>, <<"a">>, <<"Z","e","d">>,
     <<"A","l">>, <<"b","o","b","_">>, <<"M","r"," ","B","o","b">>}

ResolveRegistries ==
    {MakeUsers(names) : names \in SeqsUpTo({Bob, Boba, Alan, TagBob}, MaxRegistry)}

\* The player_name /extract ends with for a column that reads raw as its name:
\* None when the column is dropped as junk or resolves to nobody
ExtractOutcome(raw, users) ==
    LET Outcome(valid) ==
            IF valid = <<>> THEN NoneVal
            ELSE ExtractResolve(valid[1], users)["player_name"]
    IN  Outcome(SelectSeq(process_for_ocr(<<BlankStats(StrVal(raw))>>), HasValidName))

\* The player_name a correction of the name to raw ends with
CorrectOutcome(raw, users) == CorrectName(EmptyDict, strip(raw), users)["player_name"]

InitResolve ==
    /\ registered_users \in ResolveRegistries
    /\ SessionIdle
    /\ PureIdle

ResolveAtExtraction(raw) ==
    /\ r_extract = PendingVal
    /\ r_raw' = raw
    /\ r_extract' = ExtractOutcome(raw, registered_users)
    /\ UNCHANGED <<registered_users, r_correct, session_vars, match_vars, column_vars, region_vars>>

ResolveAtCorrection ==
    /\ r_extract # PendingVal
    /\ r_correct = PendingVal
    /\ r_correct' = CorrectOutcome(r_raw, registered_users)
    /\ UNCHANGED <<registered_users, r_raw, r_extract, session_vars, match_vars,
                   column_vars, region_vars>>

NextResolve ==
    \/ \E raw \in RawNames : ResolveAtExtraction(raw)
    \/ ResolveAtCorrection

SpecResolve == InitResolve /\ [][NextResolve]_vars

(***************************************************************************)
(* One field of one column: perform_ocr(image_segment, key), then          *)
(* clean_ocr_result on the text it returned                                *)
(***************************************************************************)
\* preprocessing_methods, in the order of the list
preprocessing_methods ==
    <<"preprocess_original", "preprocess_grayscale", "preprocess_threshold",
      "preprocess_blur", "preprocess_adaptive_threshold",
      "preprocess_brightness_contrast">>

\* One turn of "for preprocess in preprocessing_methods": the transform, the
\* call of tesseract on its image and the test of the stripped text.  raw is
\* what tesseract recognized; with raised, the transform or tesseract raised
\* instead, which perform_ocr answers with None.  After the last turn without
\* text perform_ocr returns None.
PreprocessAndOcr(label, raw, raised) ==
    /\ f_result = PendingVal
    /\ f_invoked = <<>> \/ label = f_label
    /\ f_label' = label
    /\ f_invoked' = Append(f_invoked, preprocessing_methods[Len(f_invoked) + 1])
    /\ LET Tested(text) ==
               /\ f_texts' = Append(f_texts, text)
               /\ f_result' =
                      IF Truthy(StrVal(text)) THEN StrVal(text)
                      ELSE IF Len(f_invoked') = Len(preprocessing_methods)
                           THEN NoneVal
                           ELSE PendingVal
       IN  IF raised
           THEN f_result' = NoneVal /\ UNCHANGED f_texts
           ELSE Tested(strip(raw))
    /\ UNCHANGED <<registered_users, session_vars, match_vars, resolve_vars,
                   region_vars, c_columns, c_player_data, f_cleaned>>

\* process_for_ocr with the text perform_ocr returned:
\* cleaned_result = clean_ocr_result(ocr_result, key)
CleanResult ==
    /\ f_result # PendingVal
    /\ Truthy(f_result)
    /\ f_cleaned = PendingVal
    /\ f_cleaned' = clean_ocr_result(f_result, f_label)
    /\ UNCHANGED <<registered_users, session_vars, match_vars, resolve_vars,
                   region_vars, c_columns, c_player_data, f_label, f_invoked,
                   f_texts, f_result>>

NextField ==
    LET \* Texts within the character whitelist of the label
        Recognized(label) ==
            IF label = "Name"
            THEN {<<>>, <<" ">>, <<"#">>, <<"B","o","b"," ">>, <<"B","o","#","b">>,
                  J0hnSmith}
            ELSE {<<>>, <<" ">>, <<"7","8",".","5","%","%">>, <<"7"," ">>, <<".">>}
    IN  \/ \E label \in {"Name", "Accuracy", "Kills"}, raised \in BOOLEAN :
               \E raw \in Recognized(label) : PreprocessAndOcr(label, raw, raised)
        \/ CleanResult

SpecField == Init /\ [][NextField]_vars

(***************************************************************************)
(* define_regions on one image                                             *)
(***************************************************************************)
\* One call of define_regions
DefineRegions(image_shape, NUM_PLAYERS) ==
    /\ g_num_players = 0
    /\ g_shape' = image_shape
    /\ g_num_players' = NUM_PLAYERS
    /\ g_regions' = define_regions(image_shape, NUM_PLAYERS)
    /\ UNCHANGED <<registered_users, session_vars, match_vars, resolve_vars,
                   column_vars>>

NextRegions ==
    LET \* The sizes up to 6 pixels around a known resolution
        Around(res) == {<<res[2] + dh, res[1] + dw>> :
                           dh \in {-6, -5, -3, 0, 3, 5, 6},
                           dw \in {-6, -5, -3, 0, 3, 5, 6}}
        Shapes == Around(<<1280, 800>>) \cup Around(<<1920, 1080>>)
                  \cup {<<2160, 3840>>, <<1440, 2560>>, <<700, 1000>>, <<>>}
    IN  \E image_shape \in Shapes, NUM_PLAYERS \in 2..4 :
            DefineRegions(image_shape, NUM_PLAYERS)

SpecRegions == Init /\ [][NextRegions]_vars

(***************************************************************************)
(* Properties                                                              *)
(***************************************************************************)
RegistryNames == {registered_users[i].player_name : i \in 1..Len(registered_users)}

\* What becomes of a column: "junk" when its name is junk or missing,
\* "unresolved" when its name resolves to no registered user, else "resolved"
ColumnFate(column) ==
    LET Fate(formatted_player) ==
            IF ~(NameIsReal(formatted_player) /\ HasValidName(formatted_player))
            THEN "junk"
            ELSE IF Truthy(ExtractResolve(formatted_player,
                                          registered_users)["player_name"])
                 THEN "resolved"
                 ELSE "unresolved"
    IN  Fate(FormatPlayer(column))

\* The columns of the image, each with its fate
ImageFates == {<<j, ColumnFate(image[j])>> : j \in 1..Len(image)}

\* How many columns have a name that is neither junk nor missing
ValidCount(fates) == Cardinality({f \in fates : f[2] # "junk"})

\* How many columns have a name that resolves to a registered user
ResolvedCount(fates) == Cardinality({f \in fates : f[2] = "resolved"})

\* C1: when /extract has shown its records for confirmation, each of them
\* carries the player_name of a registered user, and the records shown are
\* exactly those of the columns whose name is not junk and resolves: the
\* others are dropped.
C1_ShownAreRegistered ==
    content = "extracted" =>
        /\ \A i \in 1..Len(players_data) :
               /\ players_data[i]["player_name"].t = "str"
               /\ players_data[i]["player_name"].s \in RegistryNames
        /\ Len(players_data) = ResolvedCount(ImageFates)

\* /extract showed its records after dropping a column
C1_Witness ==
    /\ content = "extracted"
    /\ Len(players_data) < Len(image)
    /\ \E f \in ImageFates : f[2] = "junk"

\* /extract ended in one of its checks before it read the image
PreFailed == followup \in PreChecks \ {"ok"}

\* /extract has read the image and ended, and no correction was made since
ExtractEnded ==
    /\ image # <<>>
    /\ ~PreFailed
    /\ view = "NoMessage" \/ content = "extracted"

\* C2: when /extract has read the image, fewer than 2 columns with a valid
\* name, or fewer than 2 that resolved, end it with the failure message of
\* that check, without a confirmation message and with nothing stored; it
\* shows a confirmation message only with at least 2 resolved records, and at
\* least 2 records are under confirmation as long as the message exists.
C2_FewerThanTwoFails ==
    LET Ends(valid, resolved) ==
            /\ valid < 2 => followup = "min_valid_names"
            /\ (valid >= 2 /\ resolved < 2) => followup = "min_registered"
            /\ followup \in {"min_valid_names", "min_registered"} =>
                   /\ view = "NoMessage"
                   /\ players_data = <<>>
                   /\ stats_collection = <<>>
                   /\ monitor_posts = 0
            /\ view # "NoMessage" =>
                   /\ resolved >= 2
                   /\ Len(players_data) >= 2
        Read(fates) == Ends(ValidCount(fates), ResolvedCount(fates))
    IN  /\ ExtractEnded => Read(ImageFates)
        /\ view # "NoMessage" => Len(players_data) >= 2

\* /extract failed because fewer than 2 of at least 2 valid names resolved
C2_Witness ==
    /\ image # <<>>
    /\ ValidCount(ImageFates) >= 2
    /\ ResolvedCount(ImageFates) < 2
    /\ followup = "min_registered"
    /\ view = "NoMessage"

\* OCR read an integer in the field
ReadAsInt(v) == Truthy(v) /\ CleanDigits(v.s) # <<>>

ReadInt(v) == DigitsToNat(CleanDigits(v.s))

\* C3: for every column whose Shots Fired and Shots Hit OCR read as the
\* integers f and h, the record process_for_ocr returns carries Shots Fired = f
\* and Shots Hit = min(h, f); with f = 10, h = 15 and no accuracy read it
\* carries Shots Hit 10 and Accuracy "100.0%".  (Stated for the calls that
\* drop no column, where record j is the record of column j.)
C3_ShotsCarried ==
    Len(c_player_data) = Len(c_columns) =>
        \A j \in 1..Len(c_columns) :
            (ReadAsInt(c_columns[j]["Shots Fired"]) /\ ReadAsInt(c_columns[j]["Shots Hit"]))
            => /\ c_player_data[j]["Shots Fired"] =
                      IntVal(ReadInt(c_columns[j]["Shots Fired"]))
               /\ c_player_data[j]["Shots Hit"] =
                      IntVal(Min(ReadInt(c_columns[j]["Shots Hit"]),
                                 ReadInt(c_columns[j]["Shots Fired"])))
               /\ (/\ ReadInt(c_columns[j]["Shots Fired"]) = 10
                   /\ ReadInt(c_columns[j]["Shots Hit"]) = 15
                   /\ ~Truthy(c_columns[j]["Accuracy"]))
                  => c_player_data[j]["Accuracy"] = StrVal(<<"1","0","0",".","0","%">>)

\* C4: in every record of the session, from the records /extract shows to the
\* records YES stores, Shots Hit is at most Shots Fired, whatever corrections
\* were made.
C4_HitAtMostFired ==
    \A i \in 1..Len(players_data) :
        /\ players_data[i]["Shots Fired"].t = "int"
        /\ players_data[i]["Shots Hit"].t = "int"
        /\ players_data[i]["Shots Hit"].i <= players_data[i]["Shots Fired"].i

\* A number with exactly one decimal place, followed by '%'
OneDecimalPercent(str) ==
    LET Shaped(u) ==
            /\ Len(u) >= 4
            /\ u[Len(u)] = "%"
            /\ u[Len(u) - 1] \in Digits
            /\ u[Len(u) - 2] = "."
            /\ \A k \in 1..(Len(u) - 3) : u[k] \in Digits
    IN  Shaped(IF str # <<>> /\ Head(str) = "-" THEN Tail(str) ELSE str)

\* What a correction stores for a reply float() reads as no finite number
NonFinitePercents ==
    {<<"n","a","n","%">>, <<"i","n","f","%">>, <<"-","i","n","f","%">>}

AccuracyOf(player) == PyStr(Get(player, "Accuracy", NoneVal))

Returned == m_result # PendingMatch

CandidateNorm == normalize_name(strip(m_name))

\* Some registry name has the normalized form of the candidate
HasExact == \E i \in 1..Len(m_registry) : normalize_name(m_registry[i]) = CandidateNorm

\* C6 as the spec states it: for every candidate and registry, a candidate
\* whose normalized form is that of a registry name is matched with score 100.
C6_ExactAlways100 ==
    (Returned /\ HasExact) => (m_result.matched /\ m_result.score = 100000)

\* C6, amended: for every non-empty candidate and every registry, a candidate
\* whose normalized form is that of a registry name is matched, with score
\* 100, to a registry name of that normalized form, whatever the lengths of
\* the names.
C6_ExactNonEmpty100 ==
    (Returned /\ HasExact /\ m_name # <<>>) =>
        /\ m_result.matched
        /\ m_result.score = 100000
        /\ \E i \in 1..Len(m_registry) :
               m_result.name = m_registry[i] /\ normalize_name(m_registry[i]) = CandidateNorm

\* An exact match of names whose lengths are 7 apart
C6_Witness ==
    /\ Returned
    /\ HasExact
    /\ m_name = Bob
    /\ m_result = Match(<<"<","A","B",">","B","o","b","_","1","2">>, 100000)

\* C7: a candidate whose normalized form is shorter than min_len and is the
\* normalized form of no registry name is matched to nothing.
C7_ShortNeverFuzzy ==
    (Returned /\ Len(CandidateNorm) < m_min_len /\ ~HasExact) => ~m_result.matched

\* "Al" with min_len = 3 against a registry that holds "Ab", which the length
\* filter lets through and which scores above the threshold of 50
C7_Witness ==
    /\ Returned
    /\ m_name = <<"A","l">>
    /\ m_min_len = 3
    /\ m_threshold = 50
    /\ \E i \in 1..Len(m_registry) : m_registry[i] = <<"A","b">>
    /\ ~HasExact
    /\ ~m_result.matched

\* The match is not an exact one
FuzzyReturned == Returned /\ m_result.matched /\ ~HasExact

\* The normalized lengths differ by at most 3 and their ratio is in [0.75, 1.25]
InWindow(n) ==
    /\ Len(n) - Len(CandidateNorm) <= 3
    /\ Len(CandidateNorm) - Len(n) <= 3
    /\ 3 * Len(CandidateNorm) <= 4 * Len(n)
    /\ 4 * Len(n) <= 5 * Len(CandidateNorm)

ScoreOf(n) == Max(partial_ratio(CandidateNorm, n), ratio(CandidateNorm, n))

\* C8: a fuzzy match is a registry name inside the length window, its score is
\* the larger of its partial ratio and its token-sort ratio and reaches the
\* threshold, and no registry name inside the window scores strictly higher.
C8_FuzzyIsBestInWindow ==
    FuzzyReturned =>
        /\ \E i \in 1..Len(m_registry) : m_result.name = m_registry[i]
        /\ InWindow(normalize_name(m_result.name))
        /\ m_result.score = ScoreOf(normalize_name(m_result.name))
        /\ m_result.score >= m_threshold * 1000
        /\ \A i \in 1..Len(m_registry) :
               InWindow(normalize_name(m_registry[i]))
               => ScoreOf(normalize_name(m_registry[i])) <= m_result.score

\* A fuzzy match below 100 won against a registry name inside the window that
\* is listed first and scores less
C8_Witness ==
    /\ FuzzyReturned
    /\ m_result.score < 100000
    /\ Len(m_registry) = 2
    /\ m_result.name = m_registry[2]
    /\ InWindow(normalize_name(m_registry[1]))
    /\ ScoreOf(normalize_name(m_registry[1])) < m_result.score

\* The registry names inside the window that reach the score of the match
TopScorers ==
    {i \in 1..Len(m_registry) :
        /\ InWindow(normalize_name(m_registry[i]))
        /\ ScoreOf(normalize_name(m_registry[i])) = m_result.score}

\* C9: when several registry names tie at the top fuzzy score, the match is
\* the one of them whose un-normalized length is closest to the un-normalized
\* length of the candidate.
C9_TieByClosestLength ==
    (FuzzyReturned /\ Cardinality(TopScorers) >= 2) =>
        \A i \in TopScorers :
            Abs(Len(m_result.name) - Len(m_name)) <= Abs(Len(m_registry[i]) - Len(m_name))

\* C10: the same name text against the same registry ends with the same
\* player_name at /extract and at a correction of the name.
C10_SameOutcome ==
    (r_extract # PendingVal /\ r_correct # PendingVal) => r_extract = r_correct

\* The name find_best_match is handed at the correction of a name to r_raw
CorrectedCandidate == clean_ocr_result(StrVal(strip(r_raw)), "Name")

\* C11: when the resolver is invoked, the form it compares equals the rule
\* lowercase, strip bracket content, strip leading and trailing digits and
\* underscores, strip non-alphanumerics, applied to the name: for every
\* registry name, and for the candidate.
C11_ComparedIsRule ==
    (r_correct # PendingVal /\ Truthy(CorrectedCandidate)) =>
        /\ \A i \in 1..Len(registered_users) :
               normalize_name(DbNamesClean(registered_users)[i])
                   = normalize_name(registered_users[i].player_name)
        /\ normalize_name(strip(clean_for_match(CorrectedCandidate)))
               = normalize_name(CorrectedCandidate.s)

\* C12: the candidate "J0hnSmith", after the misread repair of
\* clean_ocr_result, against a registry that holds "JohnSmith" has the
\* normalized form of "JohnSmith" and is matched to it exactly, with score 100.
C12_J0hnSmithExact ==
    (/\ Returned
     /\ m_name = CleanName(J0hnSmith)
     /\ \E i \in 1..Len(m_registry) : m_registry[i] = JohnSmith)
    => /\ CandidateNorm = normalize_name(JohnSmith)
       /\ m_result = Match(JohnSmith, 100000)

\* The transforms in the order the claim gives: identity, grayscale, global
\* threshold, Gaussian blur, adaptive threshold, brightness and contrast
TransformOrder ==
    <<"preprocess_original", "preprocess_grayscale", "preprocess_threshold",
      "preprocess_blur", "preprocess_adaptive_threshold",
      "preprocess_brightness_contrast">>

\* C13: perform_ocr invokes the transforms in the fixed order; a transform
\* whose stripped OCR text is not empty is the last one invoked and its text
\* is what perform_ocr returns; perform_ocr goes on only while every text so
\* far was empty, and returns None when all six texts were empty.
C13_FirstSuccessWins ==
    /\ Len(f_invoked) <= Len(TransformOrder)
    /\ f_invoked = SubSeq(TransformOrder, 1, Len(f_invoked))
    /\ \A k \in 1..Len(f_texts) :
           f_texts[k] # <<>> => (k = Len(f_invoked) /\ f_result = StrVal(f_texts[k]))
    /\ f_result.t = "str" =>
           /\ Len(f_texts) = Len(f_invoked)
           /\ f_result.s = f_texts[Len(f_texts)]
           /\ f_result.s # <<>>
    /\ f_result = PendingVal =>
           /\ Len(f_invoked) < Len(TransformOrder)
           /\ Len(f_texts) = Len(f_invoked)
    /\ (Len(f_texts) = Len(TransformOrder) /\ \A k \in 1..Len(f_texts) : f_texts[k] = <<>>)
           => f_result = NoneVal

\* The third transform was the first to give text, and perform_ocr returned it
C13_Witness ==
    /\ Len(f_invoked) = 3
    /\ f_texts[1] = <<>> /\ f_texts[2] = <<>>
    /\ f_result = StrVal(Bob)

\* What OCR read in an integer field, 0 when it read no digit
ReadOrZero(v) == IF ReadAsInt(v) THEN ReadInt(v) ELSE 0

\* The Accuracy the rule of the claim gives a column
RuleAccuracy(column) ==
    LET Derived(f, h) ==
            IF f > 0 THEN Finite(FALSE, 100 * (IF h > f THEN f ELSE h), f)
            ELSE Finite(FALSE, 0, 1)
        Chosen(acc) ==
            IF acc.some /\ acc.x.kind = "fin" /\ acc.x.num <= 100 * acc.x.den
            THEN acc.x
            ELSE Derived(ReadOrZero(column["Shots Fired"]),
                         ReadOrZero(column["Shots Hit"]))
    IN  StrVal(FormatOneDecimal(Chosen(OcrAccuracy(column))) \o <<"%">>)

\* C14: the Accuracy of the record of every column is the accuracy OCR read
\* when there is one within [0, 100]; otherwise it is hit / fired x 100 with
\* hit capped at fired when fired > 0, and 0 when fired = 0, which gives
\* "0.0%" for fired = 0, hit = 0 and no accuracy read.  (Stated for the calls
\* that drop no column, where record j is the record of column j.)
C14_AccuracyRule ==
    Len(c_player_data) = Len(c_columns) =>
        \A j \in 1..Len(c_columns) :
            /\ c_player_data[j]["Accuracy"] = RuleAccuracy(c_columns[j])
            /\ (/\ ReadOrZero(c_columns[j]["Shots Fired"]) = 0
                /\ ReadOrZero(c_columns[j]["Shots Hit"]) = 0
                /\ ~Truthy(c_columns[j]["Accuracy"]))
               => c_player_data[j]["Accuracy"] = StrVal(<<"0",".","0","%">>)

\* OCR read the accuracy 150, 3 shots fired and 1 hit: the record carries the
\* derived 33.3%
C14_Witness ==
    /\ Len(c_player_data) = 2
    /\ c_columns[1]["Accuracy"] = StrVal(<<"1","5","0">>)
    /\ c_columns[1]["Shots Fired"] = StrVal(<<"3">>)
    /\ c_columns[1]["Shots Hit"] = StrVal(<<"1">>)
    /\ c_player_data[1]["Accuracy"] = StrVal(<<"3","3",".","3","%">>)

\* The fields a correction of player_name may change
IdentityKeys == {"player_name", "discord_id", "discord_server_id", "clan_name"}

\* C15: the step that ends the wait for the new value, by a reply or by the
\* timeout, keeps the number of records and changes at most the selected
\* field of the selected record; for player_name, at most the name,
\* discord_id, discord_server_id and clan_name of that record.
C15_CorrectionFrame ==
    [][(awaiting /\ ~awaiting') =>
          /\ Len(players_data') = Len(players_data)
          /\ \A i \in 1..Len(players_data), k \in PlayerKeys :
                 players_data'[i][k] # players_data[i][k] =>
                     /\ i = selected_player_index + 1
                     /\ \/ k = selected_field
                        \/ selected_field = "player_name" /\ k \in IdentityKeys]_vars

\* A correction of Kills to 7 was accepted: the record holds the integer 7
\* where /extract had stored the text OCR read, and its other fields are
\* those /extract gave it
C15_Witness ==
    /\ content = "updated"
    /\ edits = 1
    /\ selected_field = "Kills"
    /\ players_data[selected_player_index + 1]["Kills"] = IntVal(7)
    /\ players_data[selected_player_index + 1]["Shots Fired"] = IntVal(0)

\* clean_ocr_result was applied to the text perform_ocr returned
Cleaned == f_cleaned # PendingVal

\* C16: the Accuracy text "78.5%%" is cleaned to "78.5%".
C16_DoublePercent ==
    (Cleaned /\ f_label = "Accuracy" /\ f_result = StrVal(<<"7","8",".","5","%","%">>))
    => f_cleaned = StrVal(<<"7","8",".","5","%">>)

\* C17: for a Name, the cleaned text is the text after the repair, underscore,
\* trailing-letter and whitespace steps without its characters other than
\* letters, digits and spaces, and None when nothing is left of it; "#" is
\* cleaned to None.
C17_NameDropsOthers ==
    LET Dropped(kept) == IF kept = <<>> THEN NoneVal ELSE StrVal(kept)
        Expected(text) ==
            Dropped(SelectSeq(
                strip(CollapseSpaces(StripTrailingUpper(
                    UnderscoreToSpace(RepairMisreads(text))))),
                LAMBDA c : IsAlnum(c) \/ IsSpace(c)))
    IN  (Cleaned /\ f_label = "Name") =>
            /\ f_cleaned = Expected(f_result.s)
            /\ f_result.s = <<"#">> => f_cleaned = NoneVal

\* define_regions has returned
Defined == g_num_players # 0

\* Width and height of the image define_regions was given
ImageWidth == g_shape[2]

ImageHeight == g_shape[1]

\* The box of a layout for a label: its base box with the player's offset
\* added to left and right
Shifted(res, label) ==
    LET Moved(box, by) == <<box[1] + by, box[2], box[3] + by, box[4]>>
    IN  Moved(KNOWN_RESOLUTIONS[res].regions[label[2]],
              (label[1] - 1) * KNOWN_RESOLUTIONS[res].offset)

\* The image is within 5 pixels of the resolution on both axes
Within5(res) ==
    /\ g_shape # <<>>
    /\ ImageWidth - res[1] \in -5..5
    /\ ImageHeight - res[2] \in -5..5

\* The box scaled by width / res[1] and height / res[2], cut to integers
ScaledTo(box, res) ==
    <<(box[1] * ImageWidth) \div res[1], (box[2] * ImageHeight) \div res[2],
      (box[3] * ImageWidth) \div res[1], (box[4] * ImageHeight) \div res[2]>>

\* C18: for an image of exactly 1280x800 or 1920x1080 and 2 to 4 players,
\* define_regions gives a box for every player and every field, and every
\* box has left < right, top < bottom and no negative coordinate.
C18_BoxesWellFormed ==
    (Defined /\ g_shape \in {<<800, 1280>>, <<1080, 1920>>}) =>
        /\ DOMAIN g_regions = (1..g_num_players) \X RegionFields
        /\ \A label \in DOMAIN g_regions :
               /\ g_regions[label][1] < g_regions[label][3]
               /\ g_regions[label][2] < g_regions[label][4]
               /\ \A c \in 1..4 : g_regions[label][c] >= 0

\* The Deaths box of the fourth player of a 1280x800 image
C18_Witness ==
    /\ g_shape = <<800, 1280>>
    /\ g_num_players = 4
    /\ g_regions[<<4, "Deaths">>] = <<1165, 352, 1208, 376>>

\* C19: an image within 5 pixels of a known resolution on both axes gets the
\* boxes of that layout, shifted by that layout's offset per player and
\* scaled by width / base width and height / base height; at exactly the
\* known resolution the scales are 1 and every box is the base box with the
\* player's offset added to left and right.
C19_CloseUsesLayout ==
    \A res \in {<<1280, 800>>, <<1920, 1080>>} :
        (Defined /\ Within5(res)) =>
            \A label \in DOMAIN g_regions :
                /\ g_regions[label] = ScaledTo(Shifted(res, label), res)
                /\ g_shape = <<res[2], res[1]>> =>
                       g_regions[label] = Shifted(res, label)

\* An image 3 pixels off 1280x800 on both axes: the Kills box of the second
\* player comes from the 1280x800 layout
C19_Witness ==
    /\ g_shape = <<803, 1277>>
    /\ g_regions[<<2, "Kills">>] = <<532, 225, 596, 247>>

\* C20: an image within 5 pixels of no known resolution gets the 1920x1080
\* boxes, shifted per player, with left and right multiplied by width / 1920
\* and top and bottom by height / 1080 and cut to integers; for 3840x2160
\* every coordinate is twice that of the shifted 1920x1080 box.
C20_FallbackScales ==
    (/\ Defined
     /\ g_shape # <<>>
     /\ ~Within5(<<1280, 800>>)
     /\ ~Within5(<<1920, 1080>>)) =>
        \A label \in DOMAIN g_regions :
            /\ g_regions[label] = ScaledTo(Shifted(<<1920, 1080>>, label), <<1920, 1080>>)
            /\ g_shape = <<2160, 3840>> =>
                   \A c \in 1..4 :
                       g_regions[label][c] = 2 * Shifted(<<1920, 1080>>, label)[c]

\* The Name box of the second player of a 3840x2160 image
C20_Witness ==
    /\ g_shape = <<2160, 3840>>
    /\ g_regions[<<2, "Name">>] = <<1180, 400, 1640, 460>>

\* A record one of whose Kills, Accuracy, Shots Fired and Shots Hit is
\* missing or reads '0', '0.0', 'None' or 'N/A'
ReadsZero(player) ==
    \E field \in {"Kills", "Accuracy", "Shots Fired", "Shots Hit"} :
        \/ player[field].t = "absent"
        \/ PyStr(player[field]) \in
               {<<"0">>, <<"0",".","0">>, <<"N","o","n","e">>, <<"N","/","A">>}

\* C21: a step that adds documents to the collection or posts to the
\* monitor channel starts from records none of which reads zero; a YES that
\* is served while some record reads zero adds nothing, posts nothing and
\* leaves the records as they were.
C21_SaveOnlyWithoutZeros ==
    [][/\ (stats_collection' # stats_collection \/ monitor_posts' # monitor_posts) =>
              \A i \in 1..Len(players_data) : ~ReadsZero(players_data[i])
       /\ (/\ yes_pending' < yes_pending
           /\ \E i \in 1..Len(players_data) : ReadsZero(players_data[i])) =>
              UNCHANGED <<stats_collection, monitor_posts, players_data>>]_vars

\* Both shot counts of both records were corrected, YES was served, and the
\* two records are in the collection and on the monitor channel
C21_Witness ==
    /\ content = "saved"
    /\ Len(stats_collection) = 2
    /\ monitor_posts = 1
    /\ stats_collection[1]["Shots Fired"] = IntVal(10)
    /\ stats_collection[2]["Shots Hit"] = IntVal(5)

C23_PersistedNamesRegistered ==
    \A i \in 1..Len(stats_collection) :
        /\ stats_collection[i]["player_name"].t = "str"
        /\ \E j \in 1..Len(registered_users) :
               registered_users[j].player_name = stats_collection[i]["player_name"].s

\* C24: the collection holds each record of the session at most once: it
\* never has more documents than the session has records.
C24_InsertedAtMostOnce == Len(stats_collection) <= Len(players_data)

\* C25: a call of find_best_match whose candidate normalizes to the empty
\* string returns no match.
C25_EmptyNormNeverMatches ==
    (Returned /\ CandidateNorm = <<>>) => ~m_result.matched

\* C26: whenever EDIT has put the player selection on the session message,
\* the message eventually carries the confirmation view, with its YES and
\* EDIT buttons, again.
C26_EditReturnsToConfirmation ==
    (view = "PlayerSelect") ~> (view = "ConfirmationView")

=============================================================================
